---- MODULE Spec2Model ----
(***************************************************************************)
(* Model of colord's CdIt8 object (cd-it8.c): the in-memory IT8 document,  *)
(* its mutators and accessors, and cd_it8_load / cd_it8_save for the       *)
(* CTI1/CTI3 (RGB_XYZ sample tables) and CCMX (3x3 matrix) sheets.         *)
(*                                                                         *)
(* Numbers.  A gdouble is a fixed-point integer counting 1/FP (FP = 1000), *)
(* so 1.0 is 1000 and 108.9 is 108900.  A quotient or product is rounded   *)
(* once to the nearest 1/FP, as a double rounds once to its nearest value. *)
(* Text.  A gchar* is NULL or a sequence of tokens: words, numbers printed *)
(* with six decimals (as "%f" prints them) and single spaces.              *)
(***************************************************************************)
EXTENDS Integers, Sequences, FiniteSets, TLC

VARIABLES
    kind,        \* priv->kind
    matrix,      \* priv->matrix, <<row0, row1, row2>>
    normalized,  \* priv->normalized
    spectral,    \* priv->spectral
    instrument,  \* priv->instrument
    reference,   \* priv->reference
    originator,  \* priv->originator
    array_rgb,   \* priv->array_rgb
    array_xyz,   \* priv->array_xyz
    crashed,     \* the process died in a NULL dereference
    res,         \* what the last call was given and what it returned
    disk,        \* round trip only: the bytes the save wrote
    orig,        \* round trip only: the document that was saved
    stage        \* round trip only: build, read, saved, failed, fresh, loaded

doc_vars == <<kind, matrix, normalized, spectral, instrument, reference,
              originator, array_rgb, array_xyz>>
rt_vars == <<disk, orig, stage>>
vars == <<kind, matrix, normalized, spectral, instrument, reference,
          originator, array_rgb, array_xyz, crashed, res, disk, orig, stage>>

\* Longest sample array the model builds by cd_it8_add_data.
MaxSamples == 2

\* Fixed-point units per 1.0.
FP == 10 * 10 * 10

\* Units of the six decimals "%f" prints, per 1.0.
Micro == FP * FP

(* ------------------------------ numbers ------------------------------ *)

ABS(x) == IF x < 0 THEN -x ELSE x

\* a / b rounded to the nearest integer, a >= 0 and b > 0.
RDiv(a, b) == (2 * a + b) \div (2 * b)

\* a * b / c rounded once to the nearest integer, without forming a * b.
MulDiv(a, b, c) == (a \div c) * b + RDiv((a % c) * b, c)

\* An IEEE infinity and not-a-number, which no cell of the model's files holds.
Inf == [inf |-> TRUE]
NaN == [nan |-> TRUE]

(* ------------------------------- text -------------------------------- *)

Word(s) == [w |-> s, n |-> 0]
Num(micro) == [w |-> "#", n |-> micro]
Space == Word(" ")

NULL == [isnull |-> TRUE, toks |-> <<>>]
Str(s) == [isnull |-> FALSE, toks |-> <<Word(s)>>]
Text(toks) == [isnull |-> FALSE, toks |-> toks]

\* g_strcmp0 (a, b) == 0.
g_strcmp0_eq(a, b) == a = b

\* The "%f" conversion of g_strdup_printf: six decimals.
fmt_f(v) == Num(v * (Micro \div FP))

\* atof: the number a string starts with, 0.0 for a string that starts with none.
atof(piece) ==
    IF piece # <<>> /\ Head(piece).w = "#"
    THEN RDiv(Head(piece).n, Micro \div FP)
    ELSE 0

\* g_strsplit (text, " ", -1): the pieces between the spaces, each piece a
\* sequence of tokens (empty between two adjacent spaces); NULL gives NULL.
RECURSIVE SplitToks(_, _, _)
SplitToks(toks, cur, acc) ==
    IF toks = <<>> THEN Append(acc, cur)
    ELSE IF Head(toks) = Space
         THEN SplitToks(Tail(toks), <<>>, Append(acc, cur))
         ELSE SplitToks(Tail(toks), Append(cur, Head(toks)), acc)

g_strsplit(text) ==
    IF text.isnull THEN NULL
    ELSE IF text.toks = <<>> THEN Text(<<>>)
    ELSE Text(SplitToks(text.toks, <<>>, <<>>))

\* g_strv_length: 0 (after a warning) for NULL.
g_strv_length(strv) == IF strv.isnull THEN 0 ELSE Len(strv.toks)

\* g_str_has_prefix on character sequences.
g_str_has_prefix(s, p) == Len(s) >= Len(p) /\ SubSeq(s, 1, Len(p)) = p

(* ------------------------------ colours ------------------------------ *)

\* A NULL CdColorRGB* or CdColorXYZ*.
NullColor == [null |-> TRUE]

\* What a read past the end of a GPtrArray's data may find besides NULL.
Garbage == [garbage |-> TRUE]

\* An out-parameter the call did not write.
Untouched == [untouched |-> TRUE]

RGB(r, g, b) == [R |-> r, G |-> g, B |-> b]
XYZ(x, y, z) == [X |-> x, Y |-> y, Z |-> z]

\* cd_color_set_rgb (rgb, 0.0f, 0.0f, 0.0f) and cd_color_set_xyz likewise.
BlackRGB == RGB(0, 0, 0)
BlackXYZ == XYZ(0, 0, 0)

\* The patches the model measures: full white, black, a white within the
\* 0.01 tolerance at half the luminance, and yellow (blue channel off).
PatchWhite == [rgb |-> RGB(FP, FP, FP), xyz |-> XYZ(95 * FP, 100 * FP, 108900)]
PatchBlack == [rgb |-> BlackRGB, xyz |-> BlackXYZ]
PatchNearWhite == [rgb |-> RGB(995, FP, FP), xyz |-> XYZ(47500, 50 * FP, 54450)]
PatchYellow == [rgb |-> RGB(FP, FP, 500), xyz |-> XYZ(77 * FP, 92780, 13850)]
Patches == {PatchWhite, PatchBlack, PatchNearWhite, PatchYellow}

\* The (rgb, xyz) arguments cd_it8_add_data is called with: both colours,
\* neither, or one of the two.
AddDataArgs ==
    {<<PatchWhite.rgb, PatchWhite.xyz>>, <<NullColor, NullColor>>,
     <<NullColor, PatchWhite.xyz>>, <<PatchWhite.rgb, NullColor>>}

(* ------------------------------ matrices ----------------------------- *)

\* cd_mat33_clear.
ZeroMatrix == <<<<0, 0, 0>>, <<0, 0, 0>>, <<0, 0, 0>>>>

\* A correction matrix with nine different cells, one of them negative.
SomeMatrix == <<<<1100, 20, -30>>, <<40, 950, 60>>, <<70, 80, 1200>>>>

(* ------------------------------ document ----------------------------- *)

CD_IT8_KIND_UNKNOWN == "UNKNOWN"
CD_IT8_KIND_TI1 == "TI1"
CD_IT8_KIND_TI3 == "TI3"
CD_IT8_KIND_CCMX == "CCMX"
Kinds == {CD_IT8_KIND_UNKNOWN, CD_IT8_KIND_TI1, CD_IT8_KIND_TI3, CD_IT8_KIND_CCMX}

\* The bytes of no file at all.
NoFile == [nofile |-> TRUE]
NoDoc == [nodoc |-> TRUE]

\* The document as one value.
Doc ==
    [kind |-> kind, matrix |-> matrix, normalized |-> normalized,
     spectral |-> spectral, instrument |-> instrument, reference |-> reference,
     originator |-> originator, array_rgb |-> array_rgb, array_xyz |-> array_xyz]

\* cd_it8_init on zeroed private data, then the "kind" construct property.
cd_it8_new_with_kind(k) ==
    [kind |-> k, matrix |-> ZeroMatrix, normalized |-> FALSE, spectral |-> FALSE,
     instrument |-> NULL, reference |-> NULL, originator |-> NULL,
     array_rgb |-> <<>>, array_xyz |-> <<>>]

cd_it8_new == cd_it8_new_with_kind(CD_IT8_KIND_UNKNOWN)

\* The record of a call: its arguments and everything it returned.
Res(op) ==
    [op |-> op, ret |-> TRUE, err |-> "", data |-> NoFile, file |-> NoFile,
     reads |-> {}, cells |-> 0, idx |-> 0, want |-> <<FALSE, FALSE>>,
     size |-> 0, out_rgb |-> Untouched, out_xyz |-> Untouched]

SetDoc(d) ==
    /\ kind' = d.kind
    /\ matrix' = d.matrix
    /\ normalized' = d.normalized
    /\ spectral' = d.spectral
    /\ instrument' = d.instrument
    /\ reference' = d.reference
    /\ originator' = d.originator
    /\ array_rgb' = d.array_rgb
    /\ array_xyz' = d.array_xyz

InitDoc(d) ==
    /\ kind = d.kind
    /\ matrix = d.matrix
    /\ normalized = d.normalized
    /\ spectral = d.spectral
    /\ instrument = d.instrument
    /\ reference = d.reference
    /\ originator = d.originator
    /\ array_rgb = d.array_rgb
    /\ array_xyz = d.array_xyz

\* The outcome of a call that dereferenced NULL or a wild pointer.
Segv == [segv |-> TRUE]

\* The process is gone: nothing of the call is observable, nothing runs after.
Crash(op) ==
    /\ crashed' = TRUE
    /\ res' = [Res(op) EXCEPT !.ret = FALSE, !.err = "SIGSEGV"]
    /\ UNCHANGED doc_vars

\* A call that returns nothing and leaves the document d.
Apply(d) ==
    /\ ~crashed
    /\ SetDoc(d)
    /\ res' = Res("void")
    /\ UNCHANGED crashed

Init ==
    /\ \E k \in Kinds : InitDoc(cd_it8_new_with_kind(k))
    /\ crashed = FALSE
    /\ res = Res("new")
    /\ disk = NoFile
    /\ orig = NoDoc
    /\ stage = "api"

(* ------------------------------ mutators ----------------------------- *)

cd_it8_set_kind(d, k) == [d EXCEPT !.kind = k]

cd_it8_set_matrix(d, m) == [d EXCEPT !.matrix = m]

cd_it8_set_normalized(d, b) == [d EXCEPT !.normalized = b]

cd_it8_set_spectral(d, b) == [d EXCEPT !.spectral = b]

cd_it8_set_originator(d, s) == [d EXCEPT !.originator = s]

cd_it8_set_instrument(d, s) == [d EXCEPT !.instrument = s]

cd_it8_set_reference(d, s) == [d EXCEPT !.reference = s]

\* cd_color_xyz_dup, which cd-color.c defines: a copy of its argument; given
\* NULL it dereferences it, or warns and returns NULL.
cd_color_xyz_dup(xyz) == IF xyz = NullColor THEN {NullColor, Segv} ELSE {xyz}

\* cd_it8_add_data if it added the XYZ only when given an RGB.
cd_it8_add_data_no_black_xyz(d, rgb, xyz) ==
    IF rgb # NullColor
    THEN {IF xyz_tmp = Segv THEN Segv
          ELSE [d EXCEPT !.array_rgb = Append(@, rgb),
                         !.array_xyz = Append(@, xyz_tmp)] :
             xyz_tmp \in cd_color_xyz_dup(xyz)}
    ELSE {[d EXCEPT !.array_rgb = Append(@, BlackRGB)]}

\* The documents cd_it8_add_data (d, rgb, xyz) may leave, or Segv.
cd_it8_add_data(d, rgb, xyz) ==
    LET rgb_tmp == IF rgb # NullColor THEN rgb ELSE BlackRGB
        xyz_tmps == IF rgb # NullColor THEN cd_color_xyz_dup(xyz) ELSE {BlackXYZ}
    IN  {IF xyz_tmp = Segv THEN Segv
         ELSE [d EXCEPT !.array_rgb = Append(@, rgb_tmp),
                        !.array_xyz = Append(@, xyz_tmp)] : xyz_tmp \in xyz_tmps}

(* ------------------------------ accessors ---------------------------- *)

cd_it8_get_data_size(d) == Len(d.array_xyz)

\* g_ptr_array_index (array, idx): the element, or past the end whatever the
\* memory there holds.
g_ptr_array_index(array, idx) ==
    IF idx < Len(array) THEN {array[idx + 1]} ELSE {NullColor, Garbage}

\* cd_color_copy_rgb / cd_color_copy_xyz (src, dest): what dest then holds.
cd_color_copy(src) ==
    IF src = NullColor THEN {Untouched, Segv}
    ELSE IF src = Garbage THEN {Garbage, Segv}
    ELSE {src}

\* The outcomes of cd_it8_get_data_item (d, idx, rgb, xyz), where want_rgb and
\* want_xyz say which out-parameters are not NULL.
cd_it8_get_data_item(d, idx, want_rgb, want_xyz) ==
    IF idx > Len(d.array_xyz)
    THEN {[ret |-> FALSE, out_rgb |-> Untouched, out_xyz |-> Untouched]}
    ELSE LET rgbs == IF want_rgb
                     THEN UNION {cd_color_copy(src) :
                                    src \in g_ptr_array_index(d.array_rgb, idx)}
                     ELSE {Untouched}
             xyzs == IF want_xyz
                     THEN UNION {cd_color_copy(src) :
                                    src \in g_ptr_array_index(d.array_xyz, idx)}
                     ELSE {Untouched}
         IN  {IF r = Segv \/ x = Segv THEN Segv
              ELSE [ret |-> TRUE, out_rgb |-> r, out_xyz |-> x] :
                 r \in rgbs, x \in xyzs}

(* ------------------- the LittleCMS IT8 handle ------------------------ *)

Keys ==
    {"ORIGINATOR", "REFERENCE", "DESCRIPTOR", "DEVICE_CLASS", "COLOR_REP",
     "TARGET_INSTRUMENT", "INSTRUMENT", "INSTRUMENT_TYPE_SPECTRAL",
     "NORMALIZED_TO_Y_100", "LUMINANCE_XYZ_CDM2", "NUMBER_OF_FIELDS",
     "NUMBER_OF_SETS"}

\* Sheet types are character sequences, so that a prefix is a prefix.
CGATS == <<"C", "G", "A", "T", "S", ".", "1", "7">>
CTI1 == <<"C", "T", "I", "1">>
CTI3 == <<"C", "T", "I", "3">>
CCMX == <<"C", "C", "M", "X">>

\* cmsIT8Alloc: an empty sheet.
cmsIT8Alloc ==
    [sheet |-> CGATS, props |-> [k \in Keys |-> NULL], fmt |-> <<>>, data |-> <<>>]

cmsIT8SetSheetType(h, tag) == [h EXCEPT !.sheet = tag]
cmsIT8GetSheetType(h) == h.sheet

cmsIT8SetPropertyStr(h, key, val) == [h EXCEPT !.props[key] = val]
cmsIT8GetProperty(h, key) == h.props[key]

\* A number is stored as its text and read back by atof.
cmsIT8SetPropertyDbl(h, key, v) == [h EXCEPT !.props[key] = Text(<<fmt_f(v)>>)]
cmsIT8GetPropertyDbl(h, key) ==
    IF h.props[key].isnull THEN 0 ELSE atof(h.props[key].toks)

\* Column n (from 0) is named name.
cmsIT8SetDataFormat(h, n, name) ==
    [h EXCEPT !.fmt = [j \in 1..(IF n + 1 > Len(@) THEN n + 1 ELSE Len(@)) |->
                          IF j = n + 1 THEN name
                          ELSE IF j <= Len(@) THEN @[j] ELSE ""]]

\* The cell at (row, col), both from 0; rows and columns grow as needed.
cmsIT8SetDataRowColDbl(h, row, col, v) ==
    LET nrows == IF row + 1 > Len(h.data) THEN row + 1 ELSE Len(h.data)
        old(r) == IF r <= Len(h.data) THEN h.data[r] ELSE <<>>
        ncols(r) == IF r = row + 1 /\ col + 1 > Len(old(r))
                    THEN col + 1 ELSE Len(old(r))
    IN  [h EXCEPT !.data =
            [r \in 1..nrows |->
                [c \in 1..ncols(r) |->
                    IF r = row + 1 /\ c = col + 1 THEN v
                    ELSE IF c <= Len(old(r)) THEN old(r)[c] ELSE 0]]]

\* 0.0 (after an error callback) for a cell the table does not have.
cmsIT8GetDataRowColDbl(h, row, col) ==
    IF row + 1 <= Len(h.data) /\ col + 1 <= Len(h.data[row + 1])
    THEN h.data[row + 1][col + 1]
    ELSE 0

\* Bytes no IT8 parser accepts.
GarbageBytes == [garbage_bytes |-> TRUE]

\* cmsIT8SaveToMem and cmsIT8LoadFromMem: the bytes of a sheet are the sheet;
\* NULL for bytes that are none.
cmsIT8SaveToMem(h) == h
NullHandle == [nullhandle |-> TRUE]
cmsIT8LoadFromMem(data) == IF data = GarbageBytes THEN NullHandle ELSE data

(* -------------------------------- save ------------------------------- *)

\* 0.01f, the float nearest 0.01, in units of 1e-9.
Tolerance_0_01f == 9999999

\* ABS (a - b) > 0.01f.
AbsDiffExceeds(a, b) == ABS(a - b) * Micro > Tolerance_0_01f

\* cd_it8_color_match without its test of the blue channel.
cd_it8_color_match_no_blue(rgb, r, g, b) ==
    IF AbsDiffExceeds(rgb.R, r) THEN FALSE
    ELSE IF AbsDiffExceeds(rgb.G, g) THEN FALSE
    ELSE TRUE

cd_it8_color_match(rgb, r, g, b) ==
    IF AbsDiffExceeds(rgb.R, r) THEN FALSE
    ELSE IF AbsDiffExceeds(rgb.G, g) THEN FALSE
    ELSE IF AbsDiffExceeds(rgb.B, b) THEN FALSE
    ELSE TRUE

\* x * normalize, where normalize = 100.0f / max_y: one rounding.
MulNormalize(x, max_y) ==
    IF max_y = 0 THEN (IF x = 0 THEN NaN ELSE Inf)
    ELSE MulDiv(x * 100, FP, max_y)

\* The locals of cd_it8_save_ti1_ti3 before its first loop.
ScanStart ==
    [ret |-> TRUE, segv |-> FALSE, luminance_samples |-> 0,
     lumi_xyz |-> BlackXYZ, normalize |-> 0]

\* The first loop of cd_it8_save_ti1_ti3 if it took the Y of every white
\* sample as the new normalize, without comparing it with the one it has.
RECURSIVE ScanWhite_last_y(_, _, _)
ScanWhite_last_y(d, i, acc) ==
    IF i > Len(d.array_rgb) THEN acc
    ELSE IF ~cd_it8_color_match(d.array_rgb[i], FP, FP, FP)
         THEN ScanWhite_last_y(d, i + 1, [acc EXCEPT !.ret = FALSE])
         ELSE IF d.array_xyz[i] = NullColor
              THEN [acc EXCEPT !.segv = TRUE]
              ELSE LET xyz_tmp == d.array_xyz[i]
                   IN  ScanWhite_last_y(d, i + 1,
                           [ret |-> TRUE, segv |-> FALSE,
                            luminance_samples |-> acc.luminance_samples + 1,
                            lumi_xyz |-> XYZ(acc.lumi_xyz.X + xyz_tmp.X,
                                             acc.lumi_xyz.Y + xyz_tmp.Y,
                                             acc.lumi_xyz.Z + xyz_tmp.Z),
                            normalize |-> xyz_tmp.Y])

\* The first loop of cd_it8_save_ti1_ti3 from sample i (from 1) on.
RECURSIVE ScanWhite(_, _, _)
ScanWhite(d, i, acc) ==
    IF i > Len(d.array_rgb) THEN acc
    ELSE IF ~cd_it8_color_match(d.array_rgb[i], FP, FP, FP)
         THEN ScanWhite(d, i + 1, [acc EXCEPT !.ret = FALSE])
         ELSE IF d.array_xyz[i] = NullColor
              THEN [acc EXCEPT !.segv = TRUE]
              ELSE LET xyz_tmp == d.array_xyz[i]
                   IN  ScanWhite(d, i + 1,
                           [ret |-> TRUE, segv |-> FALSE,
                            luminance_samples |-> acc.luminance_samples + 1,
                            lumi_xyz |-> XYZ(acc.lumi_xyz.X + xyz_tmp.X,
                                             acc.lumi_xyz.Y + xyz_tmp.Y,
                                             acc.lumi_xyz.Z + xyz_tmp.Z),
                            normalize |-> IF xyz_tmp.Y > acc.normalize
                                          THEN xyz_tmp.Y ELSE acc.normalize])

\* The second loop of cd_it8_save_ti1_ti3 from sample i (from 1) on: one data
\* row a sample.
RECURSIVE WriteRows(_, _, _, _)
WriteRows(d, h, i, max_y) ==
    IF i > Len(d.array_rgb) THEN h
    ELSE LET rgb_tmp == d.array_rgb[i]
             xyz_tmp == d.array_xyz[i]
             x == IF d.normalized THEN MulNormalize(xyz_tmp.X, max_y) ELSE xyz_tmp.X
             y == IF d.normalized THEN MulNormalize(xyz_tmp.Y, max_y) ELSE xyz_tmp.Y
             z == IF d.normalized THEN MulNormalize(xyz_tmp.Z, max_y) ELSE xyz_tmp.Z
             h0 == cmsIT8SetDataRowColDbl(h, i - 1, 0, i * FP)
             h1 == cmsIT8SetDataRowColDbl(h0, i - 1, 1, rgb_tmp.R)
             h2 == cmsIT8SetDataRowColDbl(h1, i - 1, 2, rgb_tmp.G)
             h3 == cmsIT8SetDataRowColDbl(h2, i - 1, 3, rgb_tmp.B)
             h4 == cmsIT8SetDataRowColDbl(h3, i - 1, 4, x)
             h5 == cmsIT8SetDataRowColDbl(h4, i - 1, 5, y)
             h6 == cmsIT8SetDataRowColDbl(h5, i - 1, 6, z)
         IN  IF xyz_tmp = NullColor THEN Segv ELSE WriteRows(d, h6, i + 1, max_y)

\* cd_it8_save_ti1_ti3 (it8, it8_lcms, error): what it returns, the error it
\* sets and the sheet it leaves; or Segv.
cd_it8_save_ti1_ti3(d, it8_lcms) ==
    LET scan == IF d.normalized THEN ScanWhite(d, 1, ScanStart) ELSE ScanStart
        n == scan.luminance_samples
        lumi_xyz == IF d.normalized /\ n > 0
                    THEN XYZ(RDiv(scan.lumi_xyz.X, n), RDiv(scan.lumi_xyz.Y, n),
                             RDiv(scan.lumi_xyz.Z, n))
                    ELSE BlackXYZ
        lumi_str == Text(<<fmt_f(lumi_xyz.X), Space, fmt_f(lumi_xyz.Y), Space,
                           fmt_f(lumi_xyz.Z)>>)
        a1 == IF d.kind = CD_IT8_KIND_TI1
              THEN cmsIT8SetPropertyStr(cmsIT8SetSheetType(it8_lcms, CTI1),
                       "DESCRIPTOR", Str("Calibration Target chart information 1"))
              ELSE IF d.kind = CD_IT8_KIND_TI3
              THEN cmsIT8SetPropertyStr(cmsIT8SetSheetType(it8_lcms, CTI3),
                       "DESCRIPTOR", Str("Calibration Target chart information 3"))
              ELSE it8_lcms
        a2 == IF d.kind = CD_IT8_KIND_TI3
              THEN cmsIT8SetPropertyStr(a1, "DEVICE_CLASS", Str("DISPLAY"))
              ELSE a1
        a3 == cmsIT8SetPropertyStr(a2, "COLOR_REP", Str("RGB_XYZ"))
        a4 == IF ~d.instrument.isnull
              THEN cmsIT8SetPropertyStr(a3, "TARGET_INSTRUMENT", d.instrument)
              ELSE a3
        a5 == cmsIT8SetPropertyStr(a4, "INSTRUMENT_TYPE_SPECTRAL",
                                   IF d.spectral THEN Str("YES") ELSE Str("NO"))
        a6 == IF d.normalized
              THEN cmsIT8SetPropertyStr(
                       cmsIT8SetPropertyStr(a5, "NORMALIZED_TO_Y_100", Str("YES")),
                       "LUMINANCE_XYZ_CDM2", lumi_str)
              ELSE cmsIT8SetPropertyStr(a5, "NORMALIZED_TO_Y_100", Str("NO"))
        a7 == cmsIT8SetPropertyDbl(a6, "NUMBER_OF_FIELDS", 7 * FP)
        a8 == cmsIT8SetPropertyDbl(a7, "NUMBER_OF_SETS", Len(d.array_rgb) * FP)
        f0 == cmsIT8SetDataFormat(a8, 0, "SAMPLE_ID")
        f1 == cmsIT8SetDataFormat(f0, 1, "RGB_R")
        f2 == cmsIT8SetDataFormat(f1, 2, "RGB_G")
        f3 == cmsIT8SetDataFormat(f2, 3, "RGB_B")
        f4 == cmsIT8SetDataFormat(f3, 4, "XYZ_X")
        f5 == cmsIT8SetDataFormat(f4, 5, "XYZ_Y")
        f6 == cmsIT8SetDataFormat(f5, 6, "XYZ_Z")
        written == WriteRows(d, f6, 1, scan.normalize)
    IN  IF scan.segv THEN Segv
        ELSE IF d.normalized /\ n = 0
        THEN [ret |-> FALSE, err |-> "Failed to find any white samples",
              it8_lcms |-> it8_lcms]
        ELSE IF written = Segv THEN Segv
        ELSE [ret |-> scan.ret, err |-> "", it8_lcms |-> written]

cd_it8_save_ccmx(d, it8_lcms) ==
    LET a1 == cmsIT8SetPropertyStr(cmsIT8SetSheetType(it8_lcms, CCMX),
                                   "DESCRIPTOR", Str("Device Correction Matrix"))
        a2 == cmsIT8SetPropertyStr(a1, "COLOR_REP", Str("XYZ"))
        a3 == cmsIT8SetPropertyDbl(a2, "NUMBER_OF_FIELDS", 3 * FP)
        a4 == cmsIT8SetPropertyDbl(a3, "NUMBER_OF_SETS", 3 * FP)
        f0 == cmsIT8SetDataFormat(a4, 0, "XYZ_X")
        f1 == cmsIT8SetDataFormat(f0, 1, "XYZ_Y")
        f2 == cmsIT8SetDataFormat(f1, 2, "XYZ_Z")
        a5 == IF ~d.instrument.isnull
              THEN cmsIT8SetPropertyStr(f2, "INSTRUMENT", d.instrument)
              ELSE f2
        m00 == cmsIT8SetDataRowColDbl(a5, 0, 0, d.matrix[1][1])
        m01 == cmsIT8SetDataRowColDbl(m00, 0, 1, d.matrix[1][2])
        m02 == cmsIT8SetDataRowColDbl(m01, 0, 2, d.matrix[1][3])
        m10 == cmsIT8SetDataRowColDbl(m02, 1, 0, d.matrix[2][1])
        m11 == cmsIT8SetDataRowColDbl(m10, 1, 1, d.matrix[2][2])
        m12 == cmsIT8SetDataRowColDbl(m11, 1, 2, d.matrix[2][3])
        m20 == cmsIT8SetDataRowColDbl(m12, 2, 0, d.matrix[3][1])
        m21 == cmsIT8SetDataRowColDbl(m20, 2, 1, d.matrix[3][2])
        m22 == cmsIT8SetDataRowColDbl(m21, 2, 2, d.matrix[3][3])
    IN  [ret |-> TRUE, err |-> "", it8_lcms |-> m22]

\* cd_it8_save (it8, file, error): what it returns, the error it sets and the
\* bytes it replaces the file's contents with (NoFile: the file is not
\* touched); or Segv.  The write itself is taken to succeed.
cd_it8_save(d) ==
    LET h0 == cmsIT8Alloc
        h1 == IF ~d.originator.isnull
              THEN cmsIT8SetPropertyStr(h0, "ORIGINATOR", d.originator) ELSE h0
        h2 == IF ~d.reference.isnull
              THEN cmsIT8SetPropertyStr(h1, "REFERENCE", d.reference) ELSE h1
        sub == IF d.kind = CD_IT8_KIND_TI1 \/ d.kind = CD_IT8_KIND_TI3
               THEN cd_it8_save_ti1_ti3(d, h2)
               ELSE IF d.kind = CD_IT8_KIND_CCMX
               THEN cd_it8_save_ccmx(d, h2)
               ELSE [ret |-> TRUE, err |-> "", it8_lcms |-> h2]
    IN  IF sub = Segv THEN Segv
        ELSE IF ~sub.ret THEN [ret |-> FALSE, err |-> sub.err, data |-> NoFile]
        ELSE [ret |-> TRUE, err |-> "", data |-> cmsIT8SaveToMem(sub.it8_lcms)]

(* -------------------------------- load ------------------------------- *)

\* cd_it8_parse_luminance (text, xyz, error): ret and, when TRUE, *xyz.
cd_it8_parse_luminance(text) ==
    LET split == g_strsplit(text)
    IN  IF g_strv_length(split) # 3
        THEN [ret |-> FALSE, xyz |-> Untouched]
        ELSE [ret |-> TRUE,
              xyz |-> XYZ(atof(split.toks[1]), atof(split.toks[2]),
                          atof(split.toks[3]))]

\* v / 100.0f.
Div100(v) == RDiv(v, 100)

\* v / 100.0f * l: v * l / (100 * FP) rounded once, without forming v * l.
ScaleBack(v, l) ==
    (v * (l \div FP) + ((v * (l % FP) + 50 * FP) \div FP)) \div 100

\* The RGB of row i (from 0): columns 1 to 3, in percent when normalized.
ReadRowRGB(h, i, scaled_to_y100) ==
    LET r == cmsIT8GetDataRowColDbl(h, i, 1)
        g == cmsIT8GetDataRowColDbl(h, i, 2)
        b == cmsIT8GetDataRowColDbl(h, i, 3)
    IN  IF scaled_to_y100 THEN RGB(Div100(r), Div100(g), Div100(b))
        ELSE RGB(r, g, b)

\* The XYZ of row i (from 0), columns 4 to 6, read the way cd_it8_load_ti1_ti3
\* would read them if it swapped X and Y.
ReadRowXYZ_swapped(h, i, scaled_to_y100, luminance) ==
    LET x == cmsIT8GetDataRowColDbl(h, i, 5)
        y == cmsIT8GetDataRowColDbl(h, i, 4)
        z == cmsIT8GetDataRowColDbl(h, i, 6)
    IN  IF scaled_to_y100
        THEN XYZ(ScaleBack(x, luminance.X), ScaleBack(y, luminance.Y),
                 ScaleBack(z, luminance.Z))
        ELSE XYZ(x, y, z)

\* The XYZ of row i (from 0): columns 4 to 6, scaled back when normalized.
ReadRowXYZ(h, i, scaled_to_y100, luminance) ==
    LET x == cmsIT8GetDataRowColDbl(h, i, 4)
        y == cmsIT8GetDataRowColDbl(h, i, 5)
        z == cmsIT8GetDataRowColDbl(h, i, 6)
    IN  IF scaled_to_y100
        THEN XYZ(ScaleBack(x, luminance.X), ScaleBack(y, luminance.Y),
                 ScaleBack(z, luminance.Z))
        ELSE XYZ(x, y, z)

\* The loop of cd_it8_load_ti1_ti3 from row i (from 0) on.
RECURSIVE ReadRows(_, _, _, _, _, _)
ReadRows(d, h, i, number_of_sets, scaled_to_y100, luminance) ==
    IF i >= number_of_sets THEN d
    ELSE ReadRows(
             [d EXCEPT
                 !.array_rgb = Append(@, ReadRowRGB(h, i, scaled_to_y100)),
                 !.array_xyz = Append(@, ReadRowXYZ(h, i, scaled_to_y100,
                                                    luminance))],
             h, i + 1, number_of_sets, scaled_to_y100, luminance)

\* cd_it8_load_ti1_ti3 (it8, it8_lcms, error): ret, the error, the document
\* it leaves, the properties it read and the number of data rows it read.
cd_it8_load_ti1_ti3(d, it8_lcms) ==
    LET color_rep == cmsIT8GetProperty(it8_lcms, "COLOR_REP")
        norm == cmsIT8GetProperty(it8_lcms, "NORMALIZED_TO_Y_100")
        scaled_to_y100 == g_strcmp0_eq(norm, Str("YES"))
        lum == cd_it8_parse_luminance(
                   cmsIT8GetProperty(it8_lcms, "LUMINANCE_XYZ_CDM2"))
        d1 == cd_it8_set_spectral(d,
                  g_strcmp0_eq(cmsIT8GetProperty(it8_lcms,
                                   "INSTRUMENT_TYPE_SPECTRAL"), Str("YES")))
        d2 == cd_it8_set_instrument(d1,
                  cmsIT8GetProperty(it8_lcms, "TARGET_INSTRUMENT"))
        number_of_sets == cmsIT8GetPropertyDbl(it8_lcms, "NUMBER_OF_SETS") \div FP
        r1 == {"COLOR_REP"}
        r2 == r1 \cup {"NORMALIZED_TO_Y_100"}
        r3 == IF scaled_to_y100 THEN r2 \cup {"LUMINANCE_XYZ_CDM2"} ELSE r2
        r4 == r3 \cup {"INSTRUMENT_TYPE_SPECTRAL", "TARGET_INSTRUMENT",
                       "NUMBER_OF_SETS"}
    IN  IF ~g_strcmp0_eq(color_rep, Str("RGB_XYZ"))
        THEN [ret |-> FALSE, err |-> "Invalid data format", d |-> d,
              reads |-> r1, cells |-> 0]
        ELSE IF scaled_to_y100 /\ ~lum.ret
        THEN [ret |-> FALSE, err |-> "LUMINANCE_XYZ_CDM2 format invalid",
              d |-> d, reads |-> r3, cells |-> 0]
        ELSE [ret |-> TRUE, err |-> "",
              d |-> ReadRows(d2, it8_lcms, 0, number_of_sets, scaled_to_y100,
                             lum.xyz),
              reads |-> r4, cells |-> number_of_sets]

\* The matrix cd_it8_load_ccmx would read if it took m01 from row 1,
\* column 0, and so on: the transpose.
LoadMatrix_transposed(it8_lcms) ==
    <<<<cmsIT8GetDataRowColDbl(it8_lcms, 0, 0),
        cmsIT8GetDataRowColDbl(it8_lcms, 1, 0),
        cmsIT8GetDataRowColDbl(it8_lcms, 2, 0)>>,
      <<cmsIT8GetDataRowColDbl(it8_lcms, 0, 1),
        cmsIT8GetDataRowColDbl(it8_lcms, 1, 1),
        cmsIT8GetDataRowColDbl(it8_lcms, 2, 1)>>,
      <<cmsIT8GetDataRowColDbl(it8_lcms, 0, 2),
        cmsIT8GetDataRowColDbl(it8_lcms, 1, 2),
        cmsIT8GetDataRowColDbl(it8_lcms, 2, 2)>>>>

\* The matrix cd_it8_load_ccmx reads: m00 .. m22 from rows 0-2, columns 0-2.
LoadMatrix(it8_lcms) ==
    <<<<cmsIT8GetDataRowColDbl(it8_lcms, 0, 0),
        cmsIT8GetDataRowColDbl(it8_lcms, 0, 1),
        cmsIT8GetDataRowColDbl(it8_lcms, 0, 2)>>,
      <<cmsIT8GetDataRowColDbl(it8_lcms, 1, 0),
        cmsIT8GetDataRowColDbl(it8_lcms, 1, 1),
        cmsIT8GetDataRowColDbl(it8_lcms, 1, 2)>>,
      <<cmsIT8GetDataRowColDbl(it8_lcms, 2, 0),
        cmsIT8GetDataRowColDbl(it8_lcms, 2, 1),
        cmsIT8GetDataRowColDbl(it8_lcms, 2, 2)>>>>

cd_it8_load_ccmx(d, it8_lcms) ==
    LET color_rep == cmsIT8GetProperty(it8_lcms, "COLOR_REP")
        d1 == cd_it8_set_instrument(d, cmsIT8GetProperty(it8_lcms, "INSTRUMENT"))
        m == LoadMatrix(it8_lcms)
    IN  IF ~g_strcmp0_eq(color_rep, Str("XYZ"))
        THEN [ret |-> FALSE, err |-> "Invalid CCMX data format", d |-> d,
              reads |-> {"COLOR_REP"}, cells |-> 0]
        ELSE [ret |-> TRUE, err |-> "", d |-> [d1 EXCEPT !.matrix = m],
              reads |-> {"COLOR_REP", "INSTRUMENT"}, cells |-> 3]

\* No kind: the sheet type selects none.
NoKind == "NONE"

\* The kind cd_it8_load would select if it compared whole sheet types.
KindOfSheetType_exact(tmp) ==
    IF tmp = CTI1 THEN CD_IT8_KIND_TI1
    ELSE IF tmp = CTI3 THEN CD_IT8_KIND_TI3
    ELSE IF tmp = CCMX THEN CD_IT8_KIND_CCMX
    ELSE NoKind

\* The kind the sheet type selects in cd_it8_load, by prefix.
KindOfSheetType(tmp) ==
    IF g_str_has_prefix(tmp, CTI1) THEN CD_IT8_KIND_TI1
    ELSE IF g_str_has_prefix(tmp, CTI3) THEN CD_IT8_KIND_TI3
    ELSE IF g_str_has_prefix(tmp, CCMX) THEN CD_IT8_KIND_CCMX
    ELSE NoKind

\* cd_it8_load (it8, file, error), where data is the file's contents (NoFile
\* when it cannot be read): ret, the error, the document the call leaves, the
\* properties it read and the number of data rows it read.
\* cd_it8_load if it kept the old data.
ClearOldData_keep(d) == d

\* The start of cd_it8_load: both arrays emptied, the matrix cleared.
ClearOldData(d) ==
    [d EXCEPT !.array_rgb = <<>>, !.array_xyz = <<>>, !.matrix = ZeroMatrix]

cd_it8_load(d, data) ==
    LET d0 == ClearOldData(d)
        it8_lcms == cmsIT8LoadFromMem(data)
        k == KindOfSheetType(cmsIT8GetSheetType(it8_lcms))
        d1 == cd_it8_set_kind(d0, k)
        sub == IF d1.kind = CD_IT8_KIND_TI1 \/ d1.kind = CD_IT8_KIND_TI3
               THEN cd_it8_load_ti1_ti3(d1, it8_lcms)
               ELSE IF d1.kind = CD_IT8_KIND_CCMX
               THEN cd_it8_load_ccmx(d1, it8_lcms)
               ELSE [ret |-> TRUE, err |-> "", d |-> d1, reads |-> {}, cells |-> 0]
        d2 == cd_it8_set_originator(sub.d, cmsIT8GetProperty(it8_lcms, "ORIGINATOR"))
        d3 == cd_it8_set_reference(d2, cmsIT8GetProperty(it8_lcms, "REFERENCE"))
    IN  IF data = NoFile
        THEN [ret |-> FALSE, err |-> "g_file_load_contents", d |-> d0,
              reads |-> {}, cells |-> 0]
        ELSE IF it8_lcms = NullHandle
        THEN [ret |-> FALSE, err |-> "Cannot open", d |-> d0,
              reads |-> {}, cells |-> 0]
        ELSE IF k = NoKind
        THEN [ret |-> FALSE, err |-> "Invalid sheet type", d |-> d0,
              reads |-> {}, cells |-> 0]
        ELSE IF ~sub.ret THEN sub
        ELSE [ret |-> TRUE, err |-> "", d |-> d3,
              reads |-> sub.reads \cup {"ORIGINATOR", "REFERENCE"},
              cells |-> sub.cells]

(* ------------------------------- files ------------------------------- *)

\* A sheet with the given type, properties (as <<key, value>> pairs) and rows.
RECURSIVE WithProps(_, _)
WithProps(h, kvs) ==
    IF kvs = <<>> THEN h
    ELSE WithProps(cmsIT8SetPropertyStr(h, Head(kvs)[1], Head(kvs)[2]), Tail(kvs))

Sheet(tag, kvs, rows) ==
    [WithProps(cmsIT8SetSheetType(cmsIT8Alloc, tag), kvs) EXCEPT !.data = rows]

Sets(n) == Text(<<fmt_f(n * FP)>>)

\* "95.0 100.0 108.9"
LuminanceD65 ==
    Text(<<fmt_f(95 * FP), Space, fmt_f(100 * FP), Space, fmt_f(108900)>>)

\* A normalized CTI3 sheet of two rows, white and black, RGB in percent.
FileTi3Normalized ==
    Sheet(CTI3,
          <<<<"COLOR_REP", Str("RGB_XYZ")>>, <<"NORMALIZED_TO_Y_100", Str("YES")>>,
            <<"LUMINANCE_XYZ_CDM2", LuminanceD65>>,
            <<"INSTRUMENT_TYPE_SPECTRAL", Str("NO")>>,
            <<"NUMBER_OF_SETS", Sets(2)>>, <<"REFERENCE", Str("colormunki")>>>>,
          <<<<1 * FP, 100 * FP, 100 * FP, 100 * FP, 95 * FP, 100 * FP, 108900>>,
            <<2 * FP, 0, 0, 0, 0, 0, 0>>>>)

\* An absolute CTI1 sheet of one row; its type line goes on after "CTI1".
FileTi1Plain ==
    Sheet(CTI1 \o <<" ", " ">>,
          <<<<"COLOR_REP", Str("RGB_XYZ")>>, <<"NORMALIZED_TO_Y_100", Str("NO")>>,
            <<"INSTRUMENT_TYPE_SPECTRAL", Str("YES")>>,
            <<"TARGET_INSTRUMENT", Str("huey")>>,
            <<"NUMBER_OF_SETS", Sets(1)>>, <<"ORIGINATOR", Str("cd-self-test")>>>>,
          <<<<1 * FP, 500, 500, 500, 20 * FP, 21 * FP, 23 * FP>>>>)

FileTi3BadColorRep ==
    Sheet(CTI3, <<<<"COLOR_REP", Str("LAB")>>, <<"NUMBER_OF_SETS", Sets(1)>>,
                  <<"ORIGINATOR", Str("cd-self-test")>>>>,
          <<<<1 * FP, FP, FP, FP, 95 * FP, 100 * FP, 108900>>>>)

\* LUMINANCE_XYZ_CDM2 "1.0 2.0"
FileTi3BadLuminance ==
    Sheet(CTI3,
          <<<<"COLOR_REP", Str("RGB_XYZ")>>, <<"NORMALIZED_TO_Y_100", Str("YES")>>,
            <<"LUMINANCE_XYZ_CDM2", Text(<<fmt_f(1 * FP), Space, fmt_f(2 * FP)>>)>>,
            <<"TARGET_INSTRUMENT", Str("huey")>>,
            <<"NUMBER_OF_SETS", Sets(1)>>>>,
          <<<<1 * FP, 100 * FP, 100 * FP, 100 * FP, 100 * FP, 100 * FP, 100 * FP>>>>)

\* LUMINANCE_XYZ_CDM2 "95.0 bright 108.9": three pieces, the second no number.
FileTi3WordLuminance ==
    Sheet(CTI3,
          <<<<"COLOR_REP", Str("RGB_XYZ")>>, <<"NORMALIZED_TO_Y_100", Str("YES")>>,
            <<"LUMINANCE_XYZ_CDM2",
              Text(<<fmt_f(95 * FP), Space, Word("bright"), Space,
                     fmt_f(108900)>>)>>,
            <<"TARGET_INSTRUMENT", Str("huey")>>,
            <<"NUMBER_OF_SETS", Sets(1)>>>>,
          <<<<1 * FP, 100 * FP, 100 * FP, 100 * FP, 95 * FP, 100 * FP, 108900>>>>)

FileCcmx ==
    Sheet(CCMX, <<<<"COLOR_REP", Str("XYZ")>>, <<"INSTRUMENT", Str("huey")>>,
                  <<"NUMBER_OF_SETS", Sets(3)>>>>,
          SomeMatrix)

FileCcmxBadColorRep ==
    Sheet(CCMX, <<<<"COLOR_REP", Str("RGB_XYZ")>>, <<"INSTRUMENT", Str("huey")>>>>,
          SomeMatrix)

\* A well-formed sheet of a type the loader does not know.
FileXyzz ==
    Sheet(<<"X", "Y", "Z", "Z">>,
          <<<<"COLOR_REP", Str("RGB_XYZ")>>, <<"NUMBER_OF_SETS", Sets(1)>>,
            <<"ORIGINATOR", Str("cd-self-test")>>>>,
          <<<<1 * FP, FP, FP, FP, 95 * FP, 100 * FP, 108900>>>>)

\* The contents of the files cd_it8_load is given.
Files ==
    {NoFile, GarbageBytes, FileXyzz, FileTi3Normalized, FileTi1Plain,
     FileTi3BadColorRep, FileTi3BadLuminance, FileCcmx, FileCcmxBadColorRep}

\* The contents of the files loaded over a document that holds data.
LoadOverFiles == Files \cup {FileTi3WordLuminance}

Strings(s) == {NULL, Str(s)}

(* ------------------------------ actions ------------------------------ *)

SetKind == \E k \in Kinds : Apply(cd_it8_set_kind(Doc, k))

SetMatrix == Apply(cd_it8_set_matrix(Doc, SomeMatrix))

SetNormalized ==
    \E b \in BOOLEAN : Apply(cd_it8_set_normalized(Doc, b))

SetSpectral ==
    \E b \in BOOLEAN : Apply(cd_it8_set_spectral(Doc, b))

SetOriginator ==
    \E v \in Strings("cd-self-test") :
        Apply(cd_it8_set_originator(Doc, v))

SetInstrument ==
    \E v \in Strings("huey") :
        Apply(cd_it8_set_instrument(Doc, v))

SetReference ==
    \E v \in Strings("colormunki") :
        Apply(cd_it8_set_reference(Doc, v))

\* cd_it8_add_data (it8, rgb, xyz) on the document.
AddDataStep(rgb, xyz) ==
    /\ ~crashed
    /\ Len(array_rgb) < MaxSamples
    /\ \E o \in cd_it8_add_data(Doc, rgb, xyz) :
          IF o = Segv THEN Crash("add_data") ELSE Apply(o)

AddData == \E a \in AddDataArgs : AddDataStep(a[1], a[2])

\* Which out-parameters cd_it8_get_data_item is given: both, or only one.
WantArgs == {<<TRUE, TRUE>>, <<TRUE, FALSE>>, <<FALSE, TRUE>>}

GetDataSize ==
    /\ ~crashed
    /\ res' = [Res("get_data_size") EXCEPT !.size = cd_it8_get_data_size(Doc)]
    /\ UNCHANGED <<doc_vars, crashed>>

GetDataItem ==
    /\ ~crashed
    /\ \E idx \in 0..(Len(array_xyz) + 1) : \E want \in WantArgs :
       \E o \in cd_it8_get_data_item(Doc, idx, want[1], want[2]) :
          IF o = Segv THEN Crash("get_data_item")
          ELSE /\ res' = [Res("get_data_item") EXCEPT
                             !.ret = o.ret, !.idx = idx, !.want = want,
                             !.out_rgb = o.out_rgb, !.out_xyz = o.out_xyz]
               /\ UNCHANGED <<doc_vars, crashed>>

\* cd_it8_save on the document.
SaveStep ==
    /\ ~crashed
    /\ LET o == cd_it8_save(Doc)
       IN  IF o = Segv THEN Crash("save")
           ELSE /\ res' = [Res("save") EXCEPT !.ret = o.ret, !.err = o.err,
                                               !.data = o.data]
                /\ UNCHANGED <<doc_vars, crashed>>

\* cd_it8_load of a file with contents data into the document.
LoadStep(data) ==
    /\ ~crashed
    /\ LET o == cd_it8_load(Doc, data)
       IN  /\ SetDoc(o.d)
           /\ res' = [Res("load") EXCEPT !.ret = o.ret, !.err = o.err,
                                          !.file = data, !.reads = o.reads,
                                          !.cells = o.cells]
           /\ UNCHANGED crashed

Save == SaveStep

\* Any of the files, or the one the last call saved.
Load ==
    \E data \in Files \cup (IF res.data = NoFile THEN {} ELSE {res.data}) :
        LoadStep(data)

Next ==
    \/ SetKind /\ UNCHANGED rt_vars
    \/ SetMatrix /\ UNCHANGED rt_vars
    \/ SetNormalized /\ UNCHANGED rt_vars
    \/ SetSpectral /\ UNCHANGED rt_vars
    \/ SetOriginator /\ UNCHANGED rt_vars
    \/ SetInstrument /\ UNCHANGED rt_vars
    \/ SetReference /\ UNCHANGED rt_vars
    \/ AddData /\ UNCHANGED rt_vars
    \/ Save /\ UNCHANGED rt_vars
    \/ Load /\ UNCHANGED rt_vars

Spec == Init /\ [][Next]_vars

(* ----------------------------- round trip ---------------------------- *)

\* The documents the round trip is made with: every kind and flag, the
\* strings all unset or all set, a zero or a set matrix, and up to MaxSamples
\* samples as cd_it8_add_data leaves them.
RECURSIVE SampleSeqs(_)
SampleSeqs(n) ==
    IF n = 0 THEN {<<>>}
    ELSE LET shorter == SampleSeqs(n - 1)
         IN  shorter \cup
             {Append(q, p) : q \in {q \in shorter : Len(q) = n - 1},
                             p \in Patches \cup
                                    {[rgb |-> PatchWhite.rgb, xyz |-> NullColor]}}

RTDocs ==
    {[kind |-> k, matrix |-> m, normalized |-> nm, spectral |-> sp,
      instrument |-> IF st THEN Str("huey") ELSE NULL,
      reference |-> IF st THEN Str("colormunki") ELSE NULL,
      originator |-> IF st THEN Str("cd-self-test") ELSE NULL,
      array_rgb |-> [i \in 1..Len(q) |-> q[i].rgb],
      array_xyz |-> [i \in 1..Len(q) |-> q[i].xyz]] :
        k \in Kinds, m \in {ZeroMatrix, SomeMatrix}, nm \in BOOLEAN,
        sp \in BOOLEAN, st \in BOOLEAN, q \in SampleSeqs(MaxSamples)}

InitRT ==
    /\ \E d \in RTDocs : InitDoc(d)
    /\ crashed = FALSE
    /\ res = Res("new")
    /\ disk = NoFile
    /\ orig = NoDoc
    /\ stage = "build"

\* The caller reads the document he holds ...
RT_GetDataSize ==
    /\ stage = "build"
    /\ GetDataSize
    /\ stage' = "read"
    /\ UNCHANGED <<disk, orig>>

RT_GetDataItem ==
    /\ stage = "build"
    /\ GetDataItem
    /\ stage' = IF crashed' THEN "crashed" ELSE "read"
    /\ UNCHANGED <<disk, orig>>

\* ... saves it ...
RT_Save ==
    /\ stage = "build"
    /\ SaveStep
    /\ orig' = Doc
    /\ disk' = res'.data
    /\ stage' = IF crashed' THEN "crashed" ELSE IF res'.ret THEN "saved" ELSE "failed"

\* ... makes a fresh document ...
RT_New ==
    /\ stage = "saved"
    /\ \E k \in Kinds : Apply(cd_it8_new_with_kind(k))
    /\ stage' = "fresh"
    /\ UNCHANGED <<disk, orig>>

\* ... and loads what was saved into it.
RT_Load ==
    /\ stage = "fresh"
    /\ LoadStep(disk)
    /\ stage' = "loaded"
    /\ UNCHANGED <<disk, orig>>

\* Or the caller loads a file over the document he holds.
RT_LoadOver ==
    /\ stage = "build"
    /\ \E data \in LoadOverFiles : LoadStep(data)
    /\ orig' = Doc
    /\ stage' = "reloaded"
    /\ UNCHANGED disk

NextRT ==
    \/ RT_GetDataSize
    \/ RT_GetDataItem
    \/ RT_Save
    \/ RT_New
    \/ RT_Load
    \/ RT_LoadOver

SpecRT == InitRT /\ [][NextRT]_vars

----------------------------------------------------------------------------
\* Properties.

\* A calibration-target document: kind TI1 or TI3.
IsTarget(d) == d.kind \in {CD_IT8_KIND_TI1, CD_IT8_KIND_TI3}

\* A white reference: every channel of the RGB within 0.01 of 1.0.
IsWhiteReference(rgb) ==
    /\ ABS(rgb.R - FP) * 100 <= FP
    /\ ABS(rgb.G - FP) * 100 <= FP
    /\ ABS(rgb.B - FP) * 100 <= FP

HasWhiteReference(d) ==
    \E i \in 1..Len(d.array_rgb) : IsWhiteReference(d.array_rgb[i])

HasExactWhite(d) ==
    \E i \in 1..Len(d.array_rgb) : d.array_rgb[i] = RGB(FP, FP, FP)

\* Two readings equal to within serialization precision: one unit of 1/FP.
Close(a, b) == ABS(a - b) <= 1

CloseXYZ(a, b) == Close(a.X, b.X) /\ Close(a.Y, b.Y) /\ Close(a.Z, b.Z)

CloseRGB(a, b) == Close(a.R, b.R) /\ Close(a.G, b.G) /\ Close(a.B, b.B)

\* C1: when a normalized calibration-target document holding a sample of
\* RGB exactly (1, 1, 1) has been saved and the file loaded into a fresh
\* document, the loaded document holds as many samples and every sample's
\* XYZ equals the original absolute XYZ to within serialization precision.
C1_NormalizedRoundTripXYZ ==
    (/\ stage = "loaded"
     /\ IsTarget(orig)
     /\ orig.normalized
     /\ HasExactWhite(orig))
    => /\ res.ret
       /\ Len(array_xyz) = Len(orig.array_xyz)
       /\ \A i \in 1..Len(orig.array_xyz) :
             CloseXYZ(array_xyz[i], orig.array_xyz[i])

\* C2: after a successful load of a calibration-target file whose
\* NORMALIZED_TO_Y_100 property is YES, the document's normalized flag is set.
C2_LoadSetsNormalized ==
    (/\ res.op = "load"
     /\ res.ret
     /\ IsTarget(Doc)
     /\ g_strcmp0_eq(cmsIT8GetProperty(res.file, "NORMALIZED_TO_Y_100"),
                     Str("YES")))
    => normalized

\* C3: a save of a normalized calibration-target document that holds a white
\* reference sample, at whatever position, succeeds and produces a file.
C3_NormalizedSaveSucceeds ==
    (/\ stage \in {"saved", "failed"}
     /\ IsTarget(orig)
     /\ orig.normalized
     /\ HasWhiteReference(orig))
    => /\ stage = "saved"
       /\ res.ret
       /\ disk # NoFile

\* C4: a save of a normalized calibration-target document none of whose
\* samples is a white reference (a document without samples included) fails
\* for want of a white sample, and no file is produced.
C4_NoWhiteSaveFails ==
    (/\ stage \in {"saved", "failed"}
     /\ IsTarget(orig)
     /\ orig.normalized
     /\ ~HasWhiteReference(orig))
    => /\ stage = "failed"
       /\ ~res.ret
       /\ res.err = "Failed to find any white samples"
       /\ res.data = NoFile
       /\ disk = NoFile

\* Two samples, the last one white but for its blue channel: the save failed.
C4_Witness ==
    /\ stage = "failed"
    /\ IsTarget(orig)
    /\ orig.normalized
    /\ Len(orig.array_rgb) = 2
    /\ ~HasWhiteReference(orig)
    /\ orig.array_rgb[2] = PatchYellow.rgb
    /\ res.err = "Failed to find any white samples"
    /\ disk = NoFile

\* C5: when a TI3 document that is not normalized has been saved and the
\* file loaded into a fresh document, the load succeeded and the loaded
\* document equals the original in kind, normalized and spectral flags,
\* instrument, originator and reference, sample count, and every sample's RGB
\* and XYZ in order.
C5_PlainTi3RoundTrip ==
    (/\ stage = "loaded"
     /\ orig.kind = CD_IT8_KIND_TI3
     /\ ~orig.normalized)
    => /\ res.ret
       /\ kind = orig.kind
       /\ normalized = orig.normalized
       /\ spectral = orig.spectral
       /\ g_strcmp0_eq(instrument, orig.instrument)
       /\ g_strcmp0_eq(originator, orig.originator)
       /\ g_strcmp0_eq(reference, orig.reference)
       /\ Len(array_rgb) = Len(orig.array_rgb)
       /\ Len(array_xyz) = Len(orig.array_xyz)
       /\ \A i \in 1..Len(orig.array_rgb) :
             /\ CloseRGB(array_rgb[i], orig.array_rgb[i])
             /\ CloseXYZ(array_xyz[i], orig.array_xyz[i])

\* A spectral TI3 document with its three strings and two samples, yellow
\* then white, has come back from the file.
C5_Witness ==
    /\ stage = "loaded"
    /\ orig.kind = CD_IT8_KIND_TI3
    /\ ~orig.normalized
    /\ orig.spectral
    /\ orig.instrument = Str("huey")
    /\ orig.array_rgb = <<PatchYellow.rgb, PatchWhite.rgb>>
    /\ array_xyz = <<PatchYellow.xyz, PatchWhite.xyz>>
    /\ spectral

\* C6: when a CCMX document has been saved and the file loaded into a fresh
\* document, the load succeeded, the kind is CCMX and the matrix equals the
\* original cell for cell, with no transposition.
C6_CcmxRoundTrip ==
    (/\ stage = "loaded"
     /\ orig.kind = CD_IT8_KIND_CCMX)
    => /\ res.ret
       /\ kind = CD_IT8_KIND_CCMX
       /\ \A r \in 1..3 : \A c \in 1..3 : matrix[r][c] = orig.matrix[r][c]

\* A CCMX document with an asymmetric matrix has come back from the file.
C6_Witness ==
    /\ stage = "loaded"
    /\ orig.kind = CD_IT8_KIND_CCMX
    /\ orig.matrix = SomeMatrix
    /\ matrix = SomeMatrix
    /\ SomeMatrix[1][2] # SomeMatrix[2][1]

\* C7: in every reachable state the document holds as many RGB values as
\* XYZ values.
C7_ArraysSameLength == Len(array_rgb) = Len(array_xyz)

\* Two samples are held, the first added without an XYZ and the second
\* without an RGB.
C7_Witness ==
    /\ Len(array_rgb) = 2
    /\ Len(array_xyz) = 2
    /\ array_rgb[1] = PatchWhite.rgb
    /\ array_xyz[1] = NullColor
    /\ array_rgb[2] = BlackRGB
    /\ array_xyz[2] = BlackXYZ

\* C8: cd_it8_get_data_item with an index at or past the sample count,
\* the count itself included, returns FALSE and leaves the outputs alone.
C8_IndexAtOrPastCountFails ==
    (/\ res.op = "get_data_item"
     /\ ~crashed
     /\ res.idx >= Len(array_xyz))
    => /\ ~res.ret
       /\ res.out_rgb = Untouched
       /\ res.out_xyz = Untouched

\* C9: cd_it8_add_data appends exactly one RGB and one XYZ: black and black
\* when either argument is absent, copies of the arguments otherwise.
C9_AddDataAppendsPair ==
    [][\A a \in AddDataArgs :
          AddDataStep(a[1], a[2])
          => /\ ~crashed'
             /\ array_rgb' = Append(array_rgb,
                    IF a[1] = NullColor \/ a[2] = NullColor
                    THEN BlackRGB ELSE a[1])
             /\ array_xyz' = Append(array_xyz,
                    IF a[1] = NullColor \/ a[2] = NullColor
                    THEN BlackXYZ ELSE a[2])]_vars

\* C10: a load of a sheet selects the kind by the prefix of the sheet type,
\* CTI1, CTI3 or CCMX; with a sheet type that has none of these prefixes the
\* load fails with "Invalid sheet type", the kind is unchanged, and no
\* property and no data cell has been read.
C10_KindBySheetTypePrefix ==
    [][(/\ res'.op = "load"
        /\ res'.file # NoFile
        /\ cmsIT8LoadFromMem(res'.file) # NullHandle)
       => LET tmp == cmsIT8GetSheetType(cmsIT8LoadFromMem(res'.file))
          IN  /\ g_str_has_prefix(tmp, CTI1) => kind' = CD_IT8_KIND_TI1
              /\ g_str_has_prefix(tmp, CTI3) => kind' = CD_IT8_KIND_TI3
              /\ g_str_has_prefix(tmp, CCMX) => kind' = CD_IT8_KIND_CCMX
              /\ (/\ ~g_str_has_prefix(tmp, CTI1)
                  /\ ~g_str_has_prefix(tmp, CTI3)
                  /\ ~g_str_has_prefix(tmp, CCMX))
                 => /\ ~res'.ret
                    /\ res'.err = "Invalid sheet type"
                    /\ kind' = kind
                    /\ res'.reads = {}
                    /\ res'.cells = 0]_vars

\* A document of kind TI3 has failed to load the XYZZ sheet and is still of
\* kind TI3.
C10_Witness ==
    /\ res.op = "load"
    /\ res.file = FileXyzz
    /\ ~res.ret
    /\ res.err = "Invalid sheet type"
    /\ res.reads = {}
    /\ kind = CD_IT8_KIND_TI3

\* A file that parses as a sheet.
IsSheet(data) == data # NoFile /\ cmsIT8LoadFromMem(data) # NullHandle

\* A calibration-target sheet: its type starts with CTI1 or CTI3.
IsTargetSheet(data) ==
    /\ IsSheet(data)
    /\ \/ g_str_has_prefix(cmsIT8GetSheetType(data), CTI1)
       \/ g_str_has_prefix(cmsIT8GetSheetType(data), CTI3)

IsCcmxSheet(data) ==
    IsSheet(data) /\ g_str_has_prefix(cmsIT8GetSheetType(data), CCMX)

\* A text of exactly three space-separated numbers.
IsLuminanceTriple(text) ==
    /\ ~text.isnull
    /\ LET split == g_strsplit(text)
       IN  /\ Len(split.toks) = 3
           /\ \A i \in 1..3 : /\ Len(split.toks[i]) = 1
                              /\ split.toks[i][1].w = "#"

\* C11: the load of a calibration-target file with NORMALIZED_TO_Y_100 "YES"
\* whose LUMINANCE_XYZ_CDM2 is not exactly three space-separated numbers
\* (another count of pieces, or a piece that is no number) fails with the
\* luminance format error, and appends no sample to the document.
C11_BadLuminanceFails ==
    (/\ stage = "reloaded"
     /\ IsTargetSheet(res.file)
     /\ cmsIT8GetProperty(res.file, "COLOR_REP") = Str("RGB_XYZ")
     /\ cmsIT8GetProperty(res.file, "NORMALIZED_TO_Y_100") = Str("YES")
     /\ ~IsLuminanceTriple(cmsIT8GetProperty(res.file, "LUMINANCE_XYZ_CDM2")))
    => /\ ~res.ret
       /\ res.err = "LUMINANCE_XYZ_CDM2 format invalid"
       /\ Len(array_rgb) <= Len(orig.array_rgb)
       /\ Len(array_xyz) <= Len(orig.array_xyz)

\* C12: a load of given bytes that fails leaves the document as it was before
\* the call: kind, samples, matrix, flags and strings are all unchanged.
C12_FailedLoadLeavesDocument ==
    (/\ stage = "reloaded"
     /\ res.file # NoFile
     /\ ~res.ret)
    => Doc = orig

\* C13: in every reachable state the payload matches the kind: a CCMX
\* document holds no samples, and a document of another kind has an all-zero
\* matrix.
C13_PayloadMatchesKind ==
    /\ kind = CD_IT8_KIND_CCMX => (array_rgb = <<>> /\ array_xyz = <<>>)
    /\ kind # CD_IT8_KIND_CCMX => matrix = ZeroMatrix

\* The positions of the white references of a document.
WhiteIdx(d) == {i \in 1..Len(d.array_rgb) : IsWhiteReference(d.array_rgb[i])}

\* The sum of the XYZ of the white references among samples 1 .. i.
RECURSIVE WhiteSum(_, _)
WhiteSum(d, i) ==
    IF i = 0 THEN BlackXYZ
    ELSE LET rest == WhiteSum(d, i - 1)
         IN  IF i \in WhiteIdx(d)
             THEN XYZ(rest.X + d.array_xyz[i].X, rest.Y + d.array_xyz[i].Y,
                      rest.Z + d.array_xyz[i].Z)
             ELSE rest

\* The largest Y among the white references.
MaxWhiteY(d) ==
    CHOOSE y \in {d.array_xyz[i].Y : i \in WhiteIdx(d)} :
        \A i \in WhiteIdx(d) : d.array_xyz[i].Y <= y

\* The k-th number of a text of numbers and spaces, in units of 1/Micro.
NumberAt(text, k) == g_strsplit(text).toks[k][1].n

\* C14: in the file a normalized calibration-target document with a white
\* reference of positive Y was saved to, LUMINANCE_XYZ_CDM2 is the
\* per-channel average of the XYZ of all white references, every row's XYZ is
\* the sample's XYZ times 100 / max_Y with max_Y the largest Y among the
\* white references, the brightest white reference has Y exactly 100 and
\* every white reference has Y at most 100.
C14_LuminanceAverageScaleMax ==
    (/\ stage = "saved"
     /\ IsTarget(orig)
     /\ orig.normalized
     /\ WhiteIdx(orig) # {}
     /\ MaxWhiteY(orig) > 0)
    => LET n == Cardinality(WhiteIdx(orig))
           sum == WhiteSum(orig, Len(orig.array_rgb))
           max_y == MaxWhiteY(orig)
           lumi == cmsIT8GetProperty(disk, "LUMINANCE_XYZ_CDM2")
           k == Micro \div FP
       IN  /\ IsLuminanceTriple(lumi)
           /\ ABS(n * NumberAt(lumi, 1) - sum.X * k) <= n * k
           /\ ABS(n * NumberAt(lumi, 2) - sum.Y * k) <= n * k
           /\ ABS(n * NumberAt(lumi, 3) - sum.Z * k) <= n * k
           /\ \A i \in 1..Len(orig.array_xyz) :
                 /\ Close(cmsIT8GetDataRowColDbl(disk, i - 1, 4),
                          MulDiv(orig.array_xyz[i].X * 100, FP, max_y))
                 /\ Close(cmsIT8GetDataRowColDbl(disk, i - 1, 5),
                          MulDiv(orig.array_xyz[i].Y * 100, FP, max_y))
                 /\ Close(cmsIT8GetDataRowColDbl(disk, i - 1, 6),
                          MulDiv(orig.array_xyz[i].Z * 100, FP, max_y))
           /\ \A i \in WhiteIdx(orig) :
                 /\ cmsIT8GetDataRowColDbl(disk, i - 1, 5) <= 100 * FP
                 /\ orig.array_xyz[i].Y = max_y
                    => cmsIT8GetDataRowColDbl(disk, i - 1, 5) = 100 * FP

\* Two white references of Y 100 and Y 50 were saved: the luminance Y is
\* their average 75, the rows have Y 100 and Y 50.
C14_Witness ==
    /\ stage = "saved"
    /\ IsTarget(orig)
    /\ orig.normalized
    /\ orig.array_xyz = <<PatchWhite.xyz, PatchNearWhite.xyz>>
    /\ WhiteIdx(orig) = {1, 2}
    /\ NumberAt(cmsIT8GetProperty(disk, "LUMINANCE_XYZ_CDM2"), 2) = 75 * Micro
    /\ cmsIT8GetDataRowColDbl(disk, 0, 5) = 100 * FP
    /\ cmsIT8GetDataRowColDbl(disk, 1, 5) = 50 * FP

\* C15: when a normalized calibration-target document has been saved and the
\* file loaded into a fresh document, every sample's RGB equals the original
\* RGB to within serialization precision.
C15_NormalizedRoundTripRGB ==
    (/\ stage = "loaded"
     /\ IsTarget(orig)
     /\ orig.normalized)
    => /\ res.ret
       /\ Len(array_rgb) = Len(orig.array_rgb)
       /\ \A i \in 1..Len(orig.array_rgb) :
             CloseRGB(array_rgb[i], orig.array_rgb[i])

\* C16: a successful load replaces what the document held: after the load
\* of a calibration-target file the document holds as many samples as the
\* file's NUMBER_OF_SETS, sample i read from row i, and a zero matrix; after
\* the load of a CCMX file it holds no samples and the file's matrix.
C16_LoadReplaces ==
    (/\ stage = "reloaded"
     /\ res.ret)
    => LET file == res.file
           number_of_sets == cmsIT8GetPropertyDbl(file, "NUMBER_OF_SETS") \div FP
           scaled == cmsIT8GetProperty(file, "NORMALIZED_TO_Y_100") = Str("YES")
           lum == cd_it8_parse_luminance(
                      cmsIT8GetProperty(file, "LUMINANCE_XYZ_CDM2")).xyz
       IN  /\ IsTargetSheet(file)
              => /\ Len(array_rgb) = number_of_sets
                 /\ Len(array_xyz) = number_of_sets
                 /\ matrix = ZeroMatrix
                 /\ \A i \in 1..number_of_sets :
                       /\ array_rgb[i] = ReadRowRGB(file, i - 1, scaled)
                       /\ array_xyz[i] = ReadRowXYZ(file, i - 1, scaled, lum)
           /\ IsCcmxSheet(file)
              => /\ array_rgb = <<>>
                 /\ array_xyz = <<>>
                 /\ matrix = LoadMatrix(file)

\* A document that held two samples and a non-zero matrix has loaded the
\* one-row CTI1 file: it holds that one sample and a zero matrix.
C16_Witness ==
    /\ stage = "reloaded"
    /\ res.ret
    /\ res.file = FileTi1Plain
    /\ Len(orig.array_rgb) = 2
    /\ orig.matrix = SomeMatrix
    /\ Len(array_rgb) = 1
    /\ array_xyz[1] = XYZ(20 * FP, 21 * FP, 23 * FP)
    /\ matrix = ZeroMatrix

====
